---- MODULE Spec2Model ----
(***************************************************************************)
(* Model of app_industrial.py: the drying model run_industrial_simulation, *)
(* the KPI aggregator calculate_kpis, the sensitivity sweep of tab3 and    *)
(* the session-state bounds hack at the end of the script.                 *)
(*                                                                         *)
(* Python floats are modelled as fixed-point integers with FP units per    *)
(* 1.0; every product and quotient is floored to that grid, in the order   *)
(* the source evaluates it.  NaN (the mean or max of an empty column) is a *)
(* value of its own that every arithmetic step propagates and every        *)
(* comparison answers FALSE on.                                            *)
(***************************************************************************)
EXTENDS Integers, Sequences, FiniteSets

\* ------------------------------------------------------------ fixed point

\* Units per 1.0 of the fixed-point grid.
FP == 1000

\* The literal num/den on the grid.
Lit(num, den) == (num * FP) \div den

\* a * b on the grid, floored; split so that no intermediate leaves 32 bits.
MulFP(a, b) == (a \div FP) * b + ((a % FP) * b) \div FP

\* a / b on the grid, floored (b /= 0: the callers raise before dividing by 0).
DivFP(a, b) == (a * FP) \div b

\* NaN, as pandas gives for the mean or the max of an empty column.
NaN == -(2^30)

IsNaN(x) == x = NaN

\* Floor of the square root of n >= 0, by bisection on lo <= root < hi.
RECURSIVE IsqrtBetween(_, _, _)
IsqrtBetween(n, lo, hi) ==
    IF hi - lo <= 1 THEN lo
    ELSE LET mid == (lo + hi) \div 2
         IN  IF mid * mid <= n THEN IsqrtBetween(n, mid, hi)
                               ELSE IsqrtBetween(n, lo, mid)

\* x ** 0.5 on the grid, for 0 <= x < 46 (x * FP stays below 46340^2).
SqrtFP(x) == IsqrtBetween(x * FP, 0, 46340)

\* x ** 1.5 = x * sqrt(x).
Pow15(x) == MulFP(x, SqrtFP(x))

\* x ** 0.8 through repeated square roots: 0.8 = 1/2 + 1/4 + 1/32 + 1/64 + ...
\* (binary 0.110011...), cut after 1/64: x^(1/2) * x^(1/4) * x^(1/32) * x^(1/64).
Pow08(x) ==
    LET r2  == SqrtFP(x)
        r4  == SqrtFP(r2)
        r8  == SqrtFP(r4)
        r16 == SqrtFP(r8)
        r32 == SqrtFP(r16)
        r64 == SqrtFP(r32)
    IN  MulFP(MulFP(MulFP(r2, r4), r32), r64)

\* Taylor series of e^y for y >= 0: the sum of the terms y^k / k! from term
\* number k on, until a term floors to 0.
RECURSIVE ExpSeries(_, _, _)
ExpSeries(y, k, term) ==
    IF term = 0 THEN 0
    ELSE term + ExpSeries(y, k + 1, (term * y) \div (k * FP))

\* np.exp(z): e^z for z >= 0, 1 / e^(-z) for z < 0.
Exp(z) ==
    IF z >= 0 THEN ExpSeries(z, 1, FP)
    ELSE (FP * FP) \div ExpSeries(-z, 1, FP)

\* ------------------------------------------------------------ drying model

DRY_WEIGHT_G == 50
BASE_TEMP_C == 90
\* BASE_AIR_SPEED_MS = 1.5
BASE_AIR_SPEED_MS == Lit(15, 10)

initial_water_mass(params) == params.peso_humedo - DRY_WEIGHT_G * FP

temp_factor(params) == Pow15(DivFP(params.temperatura, BASE_TEMP_C * FP))

airspeed_factor(params) == Pow08(DivFP(params.velocidad_aire, BASE_AIR_SPEED_MS))

\* Mutant: the drying rate also scaled by the material's thickness.
drying_rate_base_espesor(params) ==
    DivFP(MulFP(temp_factor(params), airspeed_factor(params)) * 3, params.espesor)

drying_rate_base(params) == MulFP(temp_factor(params), airspeed_factor(params))

rh_factor(params) == FP - DivFP(params.humedad_aire, 100 * FP)

\* initial_water_mass * (1 - exp(-0.05 * t * drying_rate_base * rh_factor)),
\* the exponent multiplied left to right.
water_evaporated_base(params) ==
    LET exponent == MulFP(MulFP(MulFP(-Lit(5, 100), params.tiempo_residencia),
                                drying_rate_base(params)),
                          rh_factor(params))
    IN  MulFP(initial_water_mass(params), FP - Exp(exponent))

\* Mutant: the second-from-edge test made before the outermost test.
uniformity_factor_second_first(i, num_lineas) ==
    IF i = 1 \/ i = num_lineas - 2 THEN Lit(95, 100)
    ELSE IF i = 0 \/ i = num_lineas - 1 THEN Lit(85, 100)
    ELSE FP

\* Mutant: the penalty given to the interior lines instead of the edges.
uniformity_factor_inverted(i, num_lineas) ==
    IF i = 0 \/ i = num_lineas - 1 THEN FP
    ELSE IF i = 1 \/ i = num_lineas - 2 THEN Lit(95, 100)
    ELSE Lit(85, 100)

\* The non-uniformity factor of line i (0-based) among num_lineas lines.
uniformity_factor(i, num_lineas) ==
    IF i = 0 \/ i = num_lineas - 1 THEN Lit(85, 100)
    ELSE IF i = 1 \/ i = num_lineas - 2 THEN Lit(95, 100)
    ELSE FP

Max0(x) == IF 0 >= x THEN 0 ELSE x

\* The residual moisture (wet basis, percent) of a line dried with `factor`,
\* floored at 0.
final_humidity(params, factor) ==
    LET water_evaporated_line == MulFP(water_evaporated_base(params), factor)
        final_water_mass == initial_water_mass(params) - water_evaporated_line
        final_total_mass == final_water_mass + DRY_WEIGHT_G * FP
    IN  Max0(DivFP(final_water_mass, final_total_mass) * 100)

\* Mutant: the loop stops one line short.
LineRange_short(params) == 0 .. params.num_lineas - 2

\* range(params['num_lineas']).
LineRange(params) == 0 .. params.num_lineas - 1

\* The DataFrame returned: one row per line, 'Línea i+1' and its humidity.
run_industrial_simulation(params) ==
    [k \in 1 .. Cardinality(LineRange(params)) |->
        [Linea |-> k,
         Humedad |-> final_humidity(params, uniformity_factor(k - 1, params.num_lineas))]]

\* ------------------------------------------------------------ KPI aggregator

AIR_DENSITY_KGM3 == FP
AIR_SPECIFIC_HEAT_J_KGK == 1005
\* PRICE_KWH = 0.15
PRICE_KWH == Lit(15, 100)

RECURSIVE SumHumedad(_, _)
SumHumedad(df, k) == IF k = 0 THEN 0 ELSE df[k].Humedad + SumHumedad(df, k - 1)

\* df['Humedad Residual (%)'].mean(): NaN for an empty column.
Mean(df) == IF Len(df) = 0 THEN NaN ELSE SumHumedad(df, Len(df)) \div Len(df)

\* df['Humedad Residual (%)'].max(): NaN for an empty column.
MaxHumedad(df) ==
    IF Len(df) = 0 THEN NaN
    ELSE CHOOSE m \in {df[k].Humedad : k \in 1 .. Len(df)} :
             \A k \in 1 .. Len(df) : df[k].Humedad <= m

\* x > bound as floats compare: FALSE when x is NaN.
Gt(x, bound) == ~IsNaN(x) /\ x > bound

\* Mutant: the thresholds themselves already raise the class.
risk_inclusive(temperatura, max_humedad) ==
    IF temperatura >= 160 * FP \/ (~IsNaN(max_humedad) /\ max_humedad >= 12 * FP) THEN "Alto"
    ELSE IF temperatura >= 140 * FP \/ (~IsNaN(max_humedad) /\ max_humedad >= 9 * FP) THEN "Medio"
    ELSE "Bajo"

\* Lines 131-135: the quality risk from the temperature and the worst line.
risk(temperatura, max_humedad) ==
    IF temperatura > 160 * FP \/ Gt(max_humedad, 12 * FP) THEN "Alto"
    ELSE IF temperatura > 140 * FP \/ Gt(max_humedad, 9 * FP) THEN "Medio"
    ELSE "Bajo"

\* Lines 111-113 and 115: evaporated water per piece times pieces per hour.
evaporation_rate_kgh(params, mean, pieces_per_hour) ==
    LET initial_water_kg == (params.peso_humedo - 50 * FP) \div 1000
    IN  IF IsNaN(mean) THEN NaN
        ELSE LET final_water_kg_avg == MulFP(mean \div 100, params.peso_humedo) \div 1000
                 evaporated_water_kg_per_piece == initial_water_kg - final_water_kg_avg
             IN  MulFP(evaporated_water_kg_per_piece, pieces_per_hour)

\* Lines 118-128: heating plus fan power, priced per kWh.
energy_cost_per_hour(params) ==
    LET dryer_cross_section_m2 == MulFP(params.num_lineas * FP, Lit(5, 10))
        air_flow_m3s == MulFP(params.velocidad_aire, dryer_cross_section_m2)
        air_mass_kgs == MulFP(air_flow_m3s, AIR_DENSITY_KGM3)
        power_heating_kw ==
            MulFP((air_mass_kgs * AIR_SPECIFIC_HEAT_J_KGK) \div 1000,
                  params.temperatura - 25 * FP)
        v == params.velocidad_aire
        power_fan_kw == MulFP(Lit(25, 10), MulFP(MulFP(v, v), v)) * params.num_lineas
        total_power_kw == power_heating_kw + power_fan_kw
    IN  MulFP(total_power_kw, PRICE_KWH)

\* What a call gave: the returned value, or the exception it raised.
Returned(v) == [raised |-> "none", value |-> <<v>>]
Raised(exc) == [raised |-> exc, value |-> <<>>]

\* Mutant: a zero residence time guarded instead of dividing by it.
calculate_kpis_guarded(params, df) ==
    LET pieces_per_hour ==
            IF params.tiempo_residencia = 0 THEN 0
            ELSE DivFP(60 * FP, params.tiempo_residencia) * params.num_lineas
    IN  Returned([humedad_promedio |-> Mean(df),
                  costo_energetico |-> energy_cost_per_hour(params),
                  tasa_evaporacion |->
                      evaporation_rate_kgh(params, Mean(df), pieces_per_hour),
                  riesgo_calidad |-> risk(params.temperatura, MaxHumedad(df))])

\* calculate_kpis(params, df_results).  60 / params['tiempo_residencia']
\* (line 114) is the first statement that can raise: the mean of line 112 is
\* NaN, not an error, on an empty table.  The dict holds Python numbers (the
\* widgets' values, line 165-173), for which a division by 0 raises.
calculate_kpis(params, df) ==
    IF params.tiempo_residencia = 0 THEN Raised("ZeroDivisionError")
    ELSE LET pieces_per_hour ==
                 DivFP(60 * FP, params.tiempo_residencia) * params.num_lineas
         IN  Returned([humedad_promedio |-> Mean(df),
                       costo_energetico |-> energy_cost_per_hour(params),
                       tasa_evaporacion |->
                           evaporation_rate_kgh(params, Mean(df), pieces_per_hour),
                       riesgo_calidad |-> risk(params.temperatura, MaxHumedad(df))])

\* ------------------------------------------------------------ state

VARIABLES
    p_widgets,         \* the values the dict is built from: p_peso_humedo, ... of
                       \* lines 153-163, or the arguments of a direct caller
    params,            \* the parameter dict of lines 165-173
    df_results,        \* the per-line table a call works on or returned
    kpis,              \* << >> or <<the dict calculate_kpis returned>>
    err,               \* "none" or the exception that ended the run
    pc,                \* where the caller or the script stands
    selected_var_key,  \* the swept variable of tab3
    session_state,     \* st.session_state: key -> value
    sens_values,       \* np.linspace(...) of lines 229-233
    sens_results,      \* the averages appended at line 240
    temp_params        \* the copy of line 237 the last iteration ran on

vars == <<p_widgets, params, df_results, kpis, err, pc, selected_var_key, session_state,
          sens_values, sens_results, temp_params>>

sweep_vars == <<p_widgets, selected_var_key, session_state, sens_values, sens_results,
                temp_params>>

\* ------------------------------------------------------------ inputs

\* Lines per dryer drawn for a call: 2 .. MaxNumLineas (the widget allows 12).
MaxNumLineas == 6
\* Rows of a table handed to calculate_kpis directly: 0 .. MaxRows.
MaxRows == 2

\* The widget domains of lines 153-163.
ValidParams(p) ==
    /\ 200 * FP <= p.peso_humedo /\ p.peso_humedo <= 300 * FP
    /\ 2 * FP <= p.espesor /\ p.espesor <= 5 * FP
    /\ 80 * FP <= p.temperatura /\ p.temperatura <= 180 * FP
    /\ Lit(5, 10) <= p.velocidad_aire /\ p.velocidad_aire <= 3 * FP
    /\ 5 * FP <= p.tiempo_residencia /\ p.tiempo_residencia <= 20 * FP
    /\ 10 * FP <= p.humedad_aire /\ p.humedad_aire <= 80 * FP
    /\ 2 <= p.num_lineas /\ p.num_lineas <= 12

EspesorInputs == {2 * FP, 3 * FP, 5 * FP}

\* The widgets' default values (the third argument of each of lines 153-163).
WidgetDefaults ==
    [peso_humedo |-> 240 * FP, espesor |-> 3 * FP, temperatura |-> 135 * FP,
     velocidad_aire |-> Lit(15, 10), tiempo_residencia |-> 10 * FP,
     humedad_aire |-> 50 * FP, num_lineas |-> 6]

\* What a caller of the two functions may pass: the widget domains' ends and
\* defaults, the temperatures around the risk thresholds, and values outside
\* the domains (a wet weight at or below the dry weight, a residence time of 0).
ParamInputs ==
    {WidgetDefaults} \cup
    [peso_humedo : {40 * FP, 50 * FP, 200 * FP, 300 * FP},
     espesor : {3 * FP},
     temperatura : {80 * FP, 140 * FP, 140 * FP + 1, 160 * FP, 160 * FP + 1,
                    161 * FP, 180 * FP},
     velocidad_aire : {Lit(5, 10), 3 * FP},
     tiempo_residencia : {0, 5 * FP, 20 * FP},
     humedad_aire : {10 * FP, 80 * FP},
     num_lineas : 2 .. MaxNumLineas]

\* Residual moistures around the risk thresholds 9 and 12.
HumedadInputs == {9 * FP, 9 * FP + 1, 12 * FP, 12 * FP + 1}

\* Tables of 0 .. MaxRows rows for a direct call of calculate_kpis.
TableInputs ==
    UNION {[1 .. n -> HumedadInputs] : n \in 0 .. MaxRows}

AsTable(h) == [k \in 1 .. Len(h) |-> [Linea |-> k, Humedad |-> h[k]]]

\* ------------------------------------------------------------ sensitivity sweep

\* The sample count of np.linspace (line 232).
SENS_SAMPLES == 20

SweepKeys == {"temperatura", "velocidad_aire", "tiempo_residencia", "peso_humedo"}

\* f'sidebar_{key}_min' and f'sidebar_{key}_max'.
MinKey(key) == <<"sidebar", key, "min">>
MaxKey(key) == <<"sidebar", key, "max">>

\* The session state of a new session: no key.
EmptySession == [k \in {} |-> 0]

\* st.session_state[k] = v
Put(ss, k, v) == [x \in DOMAIN ss \cup {k} |-> IF x = k THEN v ELSE ss[x]]

\* Lines 254-267: each of the four label tests matches one slider of the
\* sidebar and stores that slider's range.
sidebar_bounds_hack(ss) ==
    LET s1 == Put(Put(ss, MinKey("peso_humedo"), 200 * FP),
                  MaxKey("peso_humedo"), 300 * FP)
        s2 == Put(Put(s1, MinKey("temperatura"), 80 * FP),
                  MaxKey("temperatura"), 180 * FP)
        s3 == Put(Put(s2, MinKey("velocidad_aire"), Lit(5, 10)),
                  MaxKey("velocidad_aire"), 3 * FP)
    IN  Put(Put(s3, MinKey("tiempo_residencia"), 5 * FP),
            MaxKey("tiempo_residencia"), 20 * FP)

\* Mutant: the samples stop one step before the upper bound (endpoint left out).
linspace_open(start, stop, num) ==
    [i \in 1 .. num |-> start + ((i - 1) * (stop - start)) \div num]

\* np.linspace(start, stop, num): num evenly spaced samples, both ends included.
linspace(start, stop, num) ==
    [i \in 1 .. num |-> start + ((i - 1) * (stop - start)) \div (num - 1)]

\* Lines 237-238: temp_params = params.copy(); temp_params[key] = val.
\* Gives the base dict and the copy after the assignment.
copy_and_set(d, key, val) == [base |-> d, copy |-> [d EXCEPT ![key] = val]]

\* Lines 239-240: the average residual moisture of one simulation.
sens_result(p) == Mean(run_industrial_simulation(p))

\* ------------------------------------------------------------ the two functions, called

Init ==
    /\ params \in ParamInputs
    /\ p_widgets = params
    /\ df_results = << >>
    /\ kpis = << >>
    /\ err = "none"
    /\ pc = "start"
    /\ selected_var_key = "temperatura"
    /\ session_state = EmptySession
    /\ sens_values = << >>
    /\ sens_results = << >>
    /\ temp_params = params

\* df_results = run_industrial_simulation(params)   (line 176)
Simulate ==
    /\ pc = "start"
    /\ df_results' = run_industrial_simulation(params)
    /\ err' = "none"       \* no statement of lines 55-101 raises
    /\ pc' = "simulated"
    /\ UNCHANGED <<params, kpis, sweep_vars>>

\* kpis = calculate_kpis(params, df_results)   (line 177)
ComputeKPIs ==
    /\ pc = "simulated"
    /\ LET r == calculate_kpis(params, df_results)
       IN  kpis' = r.value /\ err' = r.raised
    /\ pc' = "done"
    /\ UNCHANGED <<params, df_results, sweep_vars>>

\* calculate_kpis called on a table of the caller's own.
CallKPIs ==
    /\ pc = "start"
    /\ \E h \in TableInputs :
           /\ df_results' = AsTable(h)
           /\ LET r == calculate_kpis(params, AsTable(h))
              IN  kpis' = r.value /\ err' = r.raised
    /\ pc' = "kpis_only"
    /\ UNCHANGED <<params, sweep_vars>>

Next == Simulate \/ ComputeKPIs \/ CallKPIs

Spec == Init /\ [][Next]_vars

\* The base parameters a sweep starts from: widget values.
SweepBaseInputs ==
    [peso_humedo : {200 * FP, 300 * FP},
     espesor : {3 * FP},
     temperatura : {135 * FP},
     velocidad_aire : {Lit(5, 10), 3 * FP},
     tiempo_residencia : {5 * FP, 20 * FP},
     humedad_aire : {10 * FP, 80 * FP},
     num_lineas : 2 .. MaxNumLineas]

\* The sweep as a function of its bounds: tab3 entered in a session whose
\* state holds the sliders' ranges under the keys lines 230-231 read.
InitSweep ==
    /\ p_widgets \in SweepBaseInputs
    /\ params = p_widgets
    /\ df_results = run_industrial_simulation(params)
    /\ kpis = calculate_kpis(params, df_results).value
    /\ err = "none"
    /\ pc = "tab3"
    /\ selected_var_key \in SweepKeys
    /\ session_state = sidebar_bounds_hack(EmptySession)
    /\ sens_values = << >>
    /\ sens_results = << >>
    /\ temp_params = params

\* Lines 229-235: the samples between the stored bounds, and an empty list.
SweepBegin ==
    /\ pc = "tab3"
    /\ {MinKey(selected_var_key), MaxKey(selected_var_key)} \subseteq DOMAIN session_state
    /\ sens_values' = linspace(session_state[MinKey(selected_var_key)],
                               session_state[MaxKey(selected_var_key)], SENS_SAMPLES)
    /\ sens_results' = << >>
    /\ pc' = "sweep"
    /\ UNCHANGED <<p_widgets, params, df_results, kpis, err, selected_var_key,
                   session_state, temp_params>>

\* Lines 236-240: one iteration of the loop over sens_values.
SweepIter ==
    /\ pc = "sweep"
    /\ Len(sens_results) < Len(sens_values)
    /\ LET val == sens_values[Len(sens_results) + 1]
           r == copy_and_set(params, selected_var_key, val)
       IN  /\ params' = r.base
           /\ temp_params' = r.copy
           /\ sens_results' = Append(sens_results, sens_result(r.copy))
    /\ UNCHANGED <<p_widgets, df_results, kpis, err, pc, selected_var_key,
                   session_state, sens_values>>

\* The loop is exhausted; lines 243-250 draw the curve.
SweepEnd ==
    /\ pc = "sweep"
    /\ Len(sens_results) = Len(sens_values)
    /\ pc' = "swept"
    /\ UNCHANGED <<p_widgets, params, df_results, kpis, err, selected_var_key,
                   session_state, sens_values, sens_results, temp_params>>

NextSweep == SweepBegin \/ SweepIter \/ SweepEnd

SpecSweep == InitSweep /\ [][NextSweep]_vars

\* ------------------------------------------------------------ the script, run by run

\* What the sidebar widgets of lines 153-163 can hold (ends and defaults).
WidgetInputs ==
    [peso_humedo : {200 * FP, 240 * FP, 300 * FP},
     espesor : {3 * FP},
     temperatura : {80 * FP, 135 * FP, 180 * FP},
     velocidad_aire : {Lit(5, 10), Lit(15, 10), 3 * FP},
     tiempo_residencia : {5 * FP, 10 * FP, 20 * FP},
     humedad_aire : {50 * FP},
     num_lineas : {2, MaxNumLineas}]

\* The first run of a new session: nothing computed, no session state.
InitScript ==
    /\ p_widgets \in WidgetInputs
    /\ params = p_widgets
    /\ df_results = << >>
    /\ kpis = << >>
    /\ err = "none"
    /\ pc = "start"
    /\ selected_var_key \in SweepKeys
    /\ session_state = EmptySession
    /\ sens_values = << >>
    /\ sens_results = << >>
    /\ temp_params = params

\* Lines 149-213: the dict from the widgets, the simulation, the KPIs and the
\* two tabs that only draw them.
ScriptTop ==
    /\ pc = "start"
    /\ params' = p_widgets
    /\ df_results' = run_industrial_simulation(p_widgets)
    /\ LET r == calculate_kpis(p_widgets, run_industrial_simulation(p_widgets))
       IN  /\ kpis' = r.value
           /\ err' = r.raised
           /\ pc' = IF r.raised = "none" THEN "tab3" ELSE "ended"
    /\ UNCHANGED <<p_widgets, selected_var_key, session_state, sens_values,
                   sens_results, temp_params>>

\* Lines 215-267, the rest of the script: the sweep reads its bounds from the
\* session state (a missing key raises KeyError and ends the run), loops over
\* the samples, and only then the hack stores the bounds.
Tab3AndHack ==
    /\ pc = "tab3"
    /\ IF {MinKey(selected_var_key), MaxKey(selected_var_key)}
              \subseteq DOMAIN session_state
       THEN LET values == linspace(session_state[MinKey(selected_var_key)],
                                   session_state[MaxKey(selected_var_key)],
                                   SENS_SAMPLES)
                last == copy_and_set(params, selected_var_key, values[SENS_SAMPLES])
            IN  /\ sens_values' = values
                /\ sens_results' =
                       [i \in 1 .. SENS_SAMPLES |->
                           sens_result(copy_and_set(params, selected_var_key,
                                                    values[i]).copy)]
                /\ params' = last.base
                /\ temp_params' = last.copy
                /\ session_state' = sidebar_bounds_hack(session_state)
                /\ err' = "none"
       ELSE /\ err' = "KeyError"
            /\ UNCHANGED <<params, session_state, sens_values, sens_results,
                           temp_params>>
    /\ pc' = "ended"
    /\ UNCHANGED <<p_widgets, df_results, kpis, selected_var_key>>

\* The user moves a widget or picks another variable: the script runs again
\* from its first line, and only the session state is carried over.
Rerun ==
    /\ pc = "ended"
    /\ p_widgets' \in WidgetInputs
    /\ selected_var_key' \in SweepKeys
    /\ params' = p_widgets'
    /\ temp_params' = p_widgets'
    /\ df_results' = << >>
    /\ kpis' = << >>
    /\ err' = "none"
    /\ sens_values' = << >>
    /\ sens_results' = << >>
    /\ pc' = "start"
    /\ UNCHANGED session_state

NextScript == ScriptTop \/ Tab3AndHack \/ Rerun

SpecScript == InitScript /\ [][NextScript]_vars

\* ------------------------------------------------------------ claims on the two functions

Simulated == pc \in {"simulated", "done"}

Humedades == {df_results[k].Humedad : k \in 1 .. Len(df_results)}

\* C1: for valid parameters run_industrial_simulation returns exactly
\* num_lineas rows, row k being line k - 1 ('Línea k'), each with a residual
\* moisture >= 0.
C1_RowPerLineNonNegative ==
    (Simulated /\ ValidParams(params)) =>
        /\ Len(df_results) = params.num_lineas
        /\ \A k \in 1 .. Len(df_results) :
               df_results[k].Linea = k /\ df_results[k].Humedad >= 0

C1_Witness ==
    /\ pc = "simulated" /\ ValidParams(params)
    /\ params.num_lineas = 6 /\ Len(df_results) = 6
    /\ \A k \in 1 .. 6 : df_results[k].Humedad > 0

\* C2: calculate_kpis classifies the risk by first match: Alto when the
\* temperature is above 160 or some line's moisture above 12, else Medio when
\* the temperature is above 140 or some moisture above 9, else Bajo; 161
\* degrees always give Alto, and 160, 140, 12 and 9 themselves do not raise
\* the class.
C2_RiskFirstMatch ==
    (pc \in {"done", "kpis_only"} /\ err = "none" /\ Len(df_results) > 0) =>
        LET t == params.temperatura
            above(b) == \E h \in Humedades : h > b
            r == kpis[1].riesgo_calidad
        IN  /\ r = IF t > 160 * FP \/ above(12 * FP) THEN "Alto"
                   ELSE IF t > 140 * FP \/ above(9 * FP) THEN "Medio"
                   ELSE "Bajo"
            /\ t = 161 * FP => r = "Alto"
            /\ (t = 160 * FP /\ ~above(12 * FP)) => r = "Medio"
            /\ (t = 140 * FP /\ ~above(9 * FP)) => r = "Bajo"
            /\ (t <= 140 * FP /\ Humedades = {12 * FP}) => r = "Medio"
            /\ (t <= 140 * FP /\ Humedades = {9 * FP}) => r = "Bajo"

C2_Witness ==
    /\ pc = "kpis_only" /\ err = "none"
    /\ params.temperatura = 140 * FP
    /\ Humedades = {9 * FP}
    /\ kpis[1].riesgo_calidad = "Bajo"

\* C3: the uniformity factor of line i is 0.85 if i = 0 or i = numLines - 1,
\* else 0.95 if i = 1 or i = numLines - 2, else 1.00: every returned row is
\* the moisture that factor gives, two lines get 0.85 and 0.85, three lines
\* 0.85, 0.95, 0.85, and line i and line numLines - 1 - i get the same.
C3_UniformityPrecedence ==
    (Simulated /\ ValidParams(params)) =>
        LET n == params.num_lineas
            expected(i) == CASE i = 0 \/ i = n - 1 -> Lit(85, 100)
                             [] i \notin {0, n - 1} /\ (i = 1 \/ i = n - 2) -> Lit(95, 100)
                             [] OTHER -> FP
        IN  /\ \A i \in 0 .. n - 1 :
                   /\ uniformity_factor(i, n) = expected(i)
                   /\ uniformity_factor(i, n) = uniformity_factor(n - 1 - i, n)
                   /\ df_results[i + 1].Humedad = final_humidity(params, expected(i))
                   /\ df_results[i + 1].Humedad = df_results[n - i].Humedad
            /\ n = 2 => <<uniformity_factor(0, n), uniformity_factor(1, n)>>
                            = <<Lit(85, 100), Lit(85, 100)>>
            /\ n = 3 => <<uniformity_factor(0, n), uniformity_factor(1, n),
                          uniformity_factor(2, n)>>
                            = <<Lit(85, 100), Lit(95, 100), Lit(85, 100)>>

C3_Witness ==
    /\ pc = "simulated" /\ ValidParams(params)
    /\ params.num_lineas = 3
    /\ df_results[1].Humedad = df_results[3].Humedad
    /\ df_results[2].Humedad < df_results[1].Humedad

\* C4: in one result for valid parameters each outermost line is at least as
\* moist as every other line, and each second-from-edge line at least as
\* moist as every interior line.
C4_EdgesWettest ==
    (Simulated /\ ValidParams(params)) =>
        LET n == params.num_lineas
            h(i) == df_results[i + 1].Humedad
            outer == {0, n - 1}
            second == {1, n - 2} \ outer
            interior == (0 .. n - 1) \ (outer \cup {1, n - 2})
        IN  /\ \A o \in outer : \A i \in 0 .. n - 1 : h(o) >= h(i)
            /\ \A s \in second : \A i \in interior : h(s) >= h(i)

C4_Witness ==
    /\ pc = "simulated" /\ ValidParams(params)
    /\ params = WidgetDefaults
    /\ df_results[1].Humedad > df_results[2].Humedad
    /\ df_results[2].Humedad > df_results[3].Humedad
    /\ df_results[5].Humedad > df_results[4].Humedad

\* C5 (as claimed): run_industrial_simulation called with a wet weight of 50
\* or less ends in an InvalidInput error and returns no table.
C5_InvalidInputBelowDryWeight ==
    (pc = "simulated" /\ params.peso_humedo <= 50 * FP) =>
        (err = "InvalidInput" /\ df_results = << >>)

\* C6: with a residence time of 0 the pipeline simulation-then-KPIs ends in
\* the division error of line 114, which reaches the caller, and no KPI dict
\* is returned, whatever the other parameters.
C6_ZeroResidenceTimeRaises ==
    (pc = "done" /\ params.tiempo_residencia = 0) =>
        (err = "ZeroDivisionError" /\ kpis = << >>)

C6_Witness ==
    /\ pc = "done" /\ params.tiempo_residencia = 0
    /\ Len(df_results) = params.num_lineas
    /\ err = "ZeroDivisionError"

\* C7 (as claimed): calculate_kpis called with an empty table is rejected
\* with EmptyResultSet and returns no KPI dict.
C7_EmptyTableRejected ==
    (pc = "kpis_only" /\ Len(df_results) = 0) =>
        (err = "EmptyResultSet" /\ kpis = << >>)

\* C9: espesor is inert: with any other thickness and everything else equal,
\* run_industrial_simulation returns the same table and calculate_kpis the
\* same outcome.
C9_EspesorInert ==
    \A e \in EspesorInputs :
        LET other == [params EXCEPT !.espesor = e]
        IN  /\ Simulated => run_industrial_simulation(other) = df_results
            /\ pc \in {"done", "kpis_only"} =>
                   calculate_kpis(other, df_results) = [raised |-> err, value |-> kpis]

C9_Witness ==
    /\ pc = "done" /\ ValidParams(params) /\ err = "none"
    /\ params.espesor = 3 * FP
    /\ kpis[1].humedad_promedio > 0
    /\ run_industrial_simulation([params EXCEPT !.espesor = 5 * FP]) = df_results

\* ------------------------------------------------------------ claims on the sweep

C10_BoundsStoredBeforeSweepReads ==
    pc = "tab3" =>
        /\ {MinKey(selected_var_key), MaxKey(selected_var_key)}
               \subseteq DOMAIN session_state
        /\ \A k \in DOMAIN session_state :
               session_state[k] = sidebar_bounds_hack(EmptySession)[k]

====
